---- MODULE Spec2Model ----
(***************************************************************************)
(* A model of AgusNeira/unknown-parser, src/parentheses.js:                *)
(*   - parentheses(tokens): the parenthesis resolver, one action per       *)
(*     iteration of its scan loop;                                         *)
(*   - evaluate(expression).calc(variables) and                            *)
(*     fastEvaluate(expression, values): the two evaluators, over parse    *)
(*     trees of bounded size.                                              *)
(* Indices are JavaScript's (0-based): token i of the source is            *)
(* tokens[i + 1] here.                                                     *)
(***************************************************************************)
EXTENDS Integers, Sequences, FiniteSets

VARIABLES tokens, i, level, parens, pc, error,
          parse_tree, unknowns, evaluate_tree, values, calcOut, fastOut,
          ncalls, failed

parenVars == <<tokens, i, level, parens, pc, error>>
evalVars == <<parse_tree, unknowns, evaluate_tree, values, calcOut, fastOut>>
historyVars == <<ncalls, failed>>
vars == <<tokens, i, level, parens, pc, error,
          parse_tree, unknowns, evaluate_tree, values, calcOut, fastOut,
          ncalls, failed>>

(***************************************************************************)
(* Bounds of the model.                                                    *)
(***************************************************************************)
MaxTokens == 6

MaxNodes == 3

MaxKeys == 2

MaxCalls == 2

(***************************************************************************)
(* Part 1: parentheses(tokens).                                            *)
(***************************************************************************)

\* `end: null` of a block that is not closed yet; any value no index takes.
Null == -1

\* JavaScript's `!v` on the values `end` takes: null and 0 are falsy.
Falsy(v) == v = Null \/ v = 0

\* The token types of the data model; the scan tells apart only the two
\* parenthesis types from the rest.
TokenTypes == {"paren_open", "paren_close", "number", "operator"}

RECURSIVE SeqsOfLen(_, _)
SeqsOfLen(S, n) ==
    IF n = 0 THEN {<<>>}
    ELSE {Append(s, x) : s \in SeqsOfLen(S, n - 1), x \in S}

TokenSeqs ==
    UNION {SeqsOfLen({[type |-> t] : t \in TokenTypes}, n) : n \in 0..MaxTokens}

\* parens.push({start: i, end: null, level}), after level++.
NewBlockStale(idx, lvl) == [start |-> idx, end |-> Null, level |-> lvl - 1]

NewBlock(idx, lvl) == [start |-> idx, end |-> Null, level |-> lvl]

\* The index the inner loop stops at: the greatest p whose end is falsy
\* (0 when there is none and the loop runs out).
LastUnclosed(ps) ==
    LET open == {p \in 1..Len(ps) : Falsy(ps[p].end)}
    IN IF open = {} THEN 0 ELSE CHOOSE p \in open : \A q \in open : q <= p

FirstUnclosed(ps) ==
    LET open == {p \in 1..Len(ps) : Falsy(ps[p].end)}
    IN IF open = {} THEN 0 ELSE CHOOSE p \in open : \A q \in open : p <= q

CloseFirstOpened(ps, idx) ==
    LET p == FirstUnclosed(ps)
    IN IF p = 0 THEN ps ELSE [ps EXCEPT ![p].end = idx + 1]

CloseTopBlock(ps, idx) ==
    IF Len(ps) = 0 THEN ps ELSE [ps EXCEPT ![Len(ps)].end = idx + 1]

\* for (p = parens.length - 1; p >= 0; p--) if (!parens[p].end) {...; break}
CloseLastOpened(ps, idx) ==
    LET p == LastUnclosed(ps)
    IN IF p = 0 THEN ps ELSE [ps EXCEPT ![p].end = idx + 1]

LevelNotPositive(lvl) == lvl <= 0

\* if (level < 0) throw ...
LevelNegative(lvl) == lvl < 0

\* Error(`Bad parentheses syntax at index ${i}`)
BadParentheses(idx) == [message |-> "Bad parentheses syntax at index", index |-> idx]

NoError == [message |-> "", index |-> Null]

\* tokens[i].type === 'paren_open'
ScanOpen ==
    /\ pc = "scan"
    /\ i < Len(tokens)
    /\ tokens[i + 1].type = "paren_open"
    /\ level' = level + 1
    /\ parens' = Append(parens, NewBlock(i, level + 1))
    /\ i' = i + 1
    /\ UNCHANGED <<tokens, pc, error>>

\* tokens[i].type === 'paren_close', and the level stays >= 0
ScanClose ==
    /\ pc = "scan"
    /\ i < Len(tokens)
    /\ tokens[i + 1].type = "paren_close"
    /\ ~LevelNegative(level - 1)
    /\ level' = level - 1
    /\ parens' = CloseLastOpened(parens, i)
    /\ i' = i + 1
    /\ UNCHANGED <<tokens, pc, error>>

\* tokens[i].type === 'paren_close', and the level becomes negative: throw
ScanCloseThrow ==
    /\ pc = "scan"
    /\ i < Len(tokens)
    /\ tokens[i + 1].type = "paren_close"
    /\ LevelNegative(level - 1)
    /\ level' = level - 1
    /\ pc' = "thrown"
    /\ error' = BadParentheses(i)
    /\ UNCHANGED <<tokens, i, parens>>

\* any other token: the loop body does nothing
ScanOther ==
    /\ pc = "scan"
    /\ i < Len(tokens)
    /\ tokens[i + 1].type \notin {"paren_open", "paren_close"}
    /\ i' = i + 1
    /\ UNCHANGED <<tokens, level, parens, pc, error>>

\* i === tokens.length: return parens
Return ==
    /\ pc = "scan"
    /\ i = Len(tokens)
    /\ pc' = "returned"
    /\ UNCHANGED <<tokens, i, level, parens, error>>

(***************************************************************************)
(* Part 2: the numbers of the evaluators.                                  *)
(*                                                                         *)
(* A JavaScript value is a tuple headed by its kind:                       *)
(*   <<"num", n, d>>   the finite number n/d (d > 0, lowest terms; n = 0   *)
(*                     is +0),                                             *)
(*   <<"nzero">> -0, <<"inf">> Infinity, <<"ninf">> -Infinity,             *)
(*   <<"nan">> NaN, <<"undefined">> undefined,                             *)
(*   <<"sym", op, a, b>>  the double that op yields on a and b, where the  *)
(*                     model does not compute it (a fractional power, or   *)
(*                     a power beyond MaxExact).                           *)
(* Finite arithmetic is exact rational arithmetic: rounding of doubles is  *)
(* not modelled.                                                           *)
(***************************************************************************)
MaxExact == 10000

PZero == <<"num", 0, 1>>
NZero == <<"nzero">>
One == <<"num", 1, 1>>
Inf == <<"inf">>
NInf == <<"ninf">>
NaN == <<"nan">>
Undefined == <<"undefined">>
Sym(op, a, b) == <<"sym", op, a, b>>

Abs(n) == IF n < 0 THEN -n ELSE n

RECURSIVE GCD(_, _)
GCD(a, b) == IF b = 0 THEN a ELSE GCD(b, a % b)

\* n/d in lowest terms, d > 0
Norm(n, d) == LET g == GCD(Abs(n), d) IN <<"num", n \div g, d \div g>>

IsSym(v) == v[1] = "sym"
IsInf(v) == v = Inf \/ v = NInf
IsZero(v) == v = PZero \/ v = NZero
IsNum(v) == v[1] = "num"

\* the sign bit of a number that is neither NaN nor symbolic
Sign(v) ==
    IF v = NInf \/ v = NZero THEN -1
    ELSE IF IsNum(v) /\ v[2] < 0 THEN -1
    ELSE 1

SignedInf(s) == IF s < 0 THEN NInf ELSE Inf
SignedZero(s) == IF s < 0 THEN NZero ELSE PZero

\* ToNumber on the values an evaluator handles: undefined becomes NaN
ToNumber(v) == IF v = Undefined THEN NaN ELSE v

\* unary -
Neg(v0) ==
    LET v == ToNumber(v0)
    IN IF v = NaN THEN NaN
       ELSE IF IsSym(v) THEN Sym("neg", v, v)
       ELSE IF v = PZero THEN NZero
       ELSE IF v = NZero THEN PZero
       ELSE IF v = Inf THEN NInf
       ELSE IF v = NInf THEN Inf
       ELSE <<"num", -v[2], v[3]>>

\* binary +
Add(a0, b0) ==
    LET a == ToNumber(a0)
        b == ToNumber(b0)
    IN IF a = NaN \/ b = NaN THEN NaN
       ELSE IF IsSym(a) \/ IsSym(b) THEN Sym("+", a, b)
       ELSE IF IsInf(a) /\ IsInf(b) THEN (IF a = b THEN a ELSE NaN)
       ELSE IF IsInf(a) THEN a
       ELSE IF IsInf(b) THEN b
       ELSE IF a = NZero THEN b
       ELSE IF b = NZero THEN a
       ELSE Norm(a[2] * b[3] + b[2] * a[3], a[3] * b[3])

\* binary -
Sub(a0, b0) ==
    LET a == ToNumber(a0)
        b == ToNumber(b0)
    IN IF a = NaN \/ b = NaN THEN NaN
       ELSE IF IsSym(a) \/ IsSym(b) THEN Sym("-", a, b)
       ELSE Add(a, Neg(b))

\* binary *
Mul(a0, b0) ==
    LET a == ToNumber(a0)
        b == ToNumber(b0)
    IN IF a = NaN \/ b = NaN THEN NaN
       ELSE IF IsSym(a) \/ IsSym(b) THEN Sym("*", a, b)
       ELSE IF (IsInf(a) /\ IsZero(b)) \/ (IsZero(a) /\ IsInf(b)) THEN NaN
       ELSE IF IsInf(a) \/ IsInf(b) THEN SignedInf(Sign(a) * Sign(b))
       ELSE IF IsZero(a) \/ IsZero(b) THEN SignedZero(Sign(a) * Sign(b))
       ELSE Norm(a[2] * b[2], a[3] * b[3])

\* binary /
Div(a0, b0) ==
    LET a == ToNumber(a0)
        b == ToNumber(b0)
    IN IF a = NaN \/ b = NaN THEN NaN
       ELSE IF IsSym(a) \/ IsSym(b) THEN Sym("/", a, b)
       ELSE IF (IsInf(a) /\ IsInf(b)) \/ (IsZero(a) /\ IsZero(b)) THEN NaN
       ELSE IF IsInf(a) \/ IsZero(b) THEN SignedInf(Sign(a) * Sign(b))
       ELSE IF IsZero(a) \/ IsInf(b) THEN SignedZero(Sign(a) * Sign(b))
       ELSE Norm(Sign(a) * Sign(b) * Abs(a[2]) * b[3], a[3] * Abs(b[2]))

\* base^k for base >= 1, k >= 0, or MaxExact + 1 or more once it passes MaxExact
RECURSIVE CapPowFrom(_, _, _)
CapPowFrom(acc, base, k) ==
    IF k = 0 \/ acc > MaxExact THEN acc ELSE CapPowFrom(acc * base, base, k - 1)

CapPow(base, k) ==
    IF base = 1 \/ k = 0 THEN 1
    ELSE IF base > MaxExact THEN MaxExact + 1
    ELSE CapPowFrom(1, base, k)

\* an odd integer among the numbers
OddInt(v) == IsNum(v) /\ v[3] = 1 /\ v[2] % 2 = 1

\* binary ** (Number::exponentiate)
Pow(a0, b0) ==
    LET a == ToNumber(a0)
        b == ToNumber(b0)
    IN IF b = NaN THEN NaN
       ELSE IF IsZero(b) THEN One
       ELSE IF IsSym(a) \/ IsSym(b) THEN Sym("**", a, b)
       ELSE IF a = NaN THEN NaN
       ELSE IF a = Inf THEN (IF Sign(b) > 0 THEN Inf ELSE PZero)
       ELSE IF a = NInf THEN
            (IF Sign(b) > 0 THEN (IF OddInt(b) THEN NInf ELSE Inf)
             ELSE (IF OddInt(b) THEN NZero ELSE PZero))
       ELSE IF a = PZero THEN (IF Sign(b) > 0 THEN PZero ELSE Inf)
       ELSE IF a = NZero THEN
            (IF Sign(b) > 0 THEN (IF OddInt(b) THEN NZero ELSE PZero)
             ELSE (IF OddInt(b) THEN NInf ELSE Inf))
       ELSE IF IsInf(b) THEN
            (IF Abs(a[2]) = a[3] THEN NaN
             ELSE IF (Abs(a[2]) > a[3]) = (b = Inf) THEN Inf
             ELSE PZero)
       ELSE IF a[2] < 0 /\ b[3] # 1 THEN NaN
       ELSE IF b[3] # 1 THEN (IF a = One THEN One ELSE Sym("**", a, b))
       ELSE LET m == Abs(b[2])
                pn == CapPow(Abs(a[2]), m)
                pd == CapPow(a[3], m)
                s == IF a[2] < 0 /\ m % 2 = 1 THEN -1 ELSE 1
            IN IF pn > MaxExact \/ pd > MaxExact THEN Sym("**", a, b)
               ELSE IF b[2] > 0 THEN <<"num", s * pn, pd>>
               ELSE <<"num", s * pd, pn>>

(***************************************************************************)
(* Part 3: literals.  The text of a literal is a sequence of characters;   *)
(* parseInt and parseFloat scan it as the built-ins do.                    *)
(***************************************************************************)
Digits == {"0", "1", "2", "3", "4", "5", "6", "7", "8", "9"}

DigitValue(c) ==
    CASE c = "0" -> 0 [] c = "1" -> 1 [] c = "2" -> 2 [] c = "3" -> 3
      [] c = "4" -> 4 [] c = "5" -> 5 [] c = "6" -> 6 [] c = "7" -> 7
      [] c = "8" -> 8 [] c = "9" -> 9

\* the length of the longest prefix of text made of digits
RECURSIVE DigitPrefix(_)
DigitPrefix(text) ==
    IF text = <<>> \/ Head(text) \notin Digits THEN 0
    ELSE 1 + DigitPrefix(Tail(text))

\* the number a sequence of digits writes in base 10
RECURSIVE DigitsValue(_)
DigitsValue(ds) ==
    IF ds = <<>> THEN 0
    ELSE 10 * DigitsValue(SubSeq(ds, 1, Len(ds) - 1)) + DigitValue(ds[Len(ds)])

RECURSIVE Pow10(_)
Pow10(k) == IF k = 0 THEN 1 ELSE 10 * Pow10(k - 1)

ParseIntRounding(text) ==
    LET k == DigitPrefix(text)
        rest == SubSeq(text, k + 1, Len(text))
    IN IF k = 0 THEN NaN
       ELSE IF rest # <<>> /\ Head(rest) = "." /\ DigitPrefix(Tail(rest)) > 0
                 /\ DigitValue(rest[2]) >= 5
            THEN <<"num", DigitsValue(SubSeq(text, 1, k)) + 1, 1>>
       ELSE <<"num", DigitsValue(SubSeq(text, 1, k)), 1>>

\* parseInt(node.value, 10): the leading digits, NaN when there is none
ParseInt(text) ==
    LET k == DigitPrefix(text)
    IN IF k = 0 THEN NaN ELSE <<"num", DigitsValue(SubSeq(text, 1, k)), 1>>

\* parseFloat(node.value, 10): the leading decimal literal (digits, then
\* optionally a point and digits), NaN when there is none; parseFloat takes
\* no radix, the second argument is ignored
ParseFloat(text) ==
    LET k == DigitPrefix(text)
        rest == SubSeq(text, k + 1, Len(text))
        m == IF rest # <<>> /\ Head(rest) = "." THEN DigitPrefix(Tail(rest)) ELSE 0
    IN IF k = 0 /\ m = 0 THEN NaN
       ELSE Norm(DigitsValue(SubSeq(text, 1, k)) * Pow10(m)
                   + DigitsValue(SubSeq(rest, 2, m + 1)),
                 Pow10(m))

(***************************************************************************)
(* Part 4: parse trees (the output of parse, which the evaluators read),   *)
(* and the unknowns the lexer collects.                                    *)
(***************************************************************************)
\* the texts of the number tokens: an integer and a decimal
LiteralTexts == {<<"3">>, <<"1", "2", ".", "5">>}

\* the identifiers of the expressions
VariableNames == {"x", "y"}

UnaryOperators == {"+", "-"}

BinaryOperators == {"+", "-", "*", "/", "^"}

Leaves ==
    {[type |-> "literal", value |-> t] : t \in LiteralTexts}
      \cup {[type |-> "variable", name |-> v] : v \in VariableNames}

\* the trees of exactly n nodes
RECURSIVE TreesOfSize(_)
TreesOfSize(n) ==
    IF n = 1 THEN Leaves
    ELSE {[type |-> "block", child |-> <<c>>] : c \in TreesOfSize(n - 1)}
      \cup {[type |-> "unary_operator", operator |-> o, child |-> c] :
               o \in UnaryOperators, c \in TreesOfSize(n - 1)}
      \cup UNION {{[type |-> "binary_operator", operator |-> o, left |-> l, right |-> r] :
                      o \in BinaryOperators, l \in TreesOfSize(k),
                      r \in TreesOfSize(n - 1 - k)} : k \in 1..(n - 2)}

ParseTrees == UNION {TreesOfSize(n) : n \in 1..MaxNodes}

\* the variable names of a tree, left to right, with repetitions
RECURSIVE NamesOf(_)
NamesOf(node) ==
    IF node.type = "block" THEN NamesOf(node.child[1])
    ELSE IF node.type = "unary_operator" THEN NamesOf(node.child)
    ELSE IF node.type = "binary_operator" THEN NamesOf(node.left) \o NamesOf(node.right)
    ELSE IF node.type = "variable" THEN <<node.name>>
    ELSE <<>>

\* s without the later occurrences of a name
RECURSIVE FirstOccurrences(_)
FirstOccurrences(s) ==
    IF s = <<>> THEN <<>>
    ELSE LET front == FirstOccurrences(SubSeq(s, 1, Len(s) - 1))
             last == s[Len(s)]
         IN IF \E k \in 1..Len(front) : front[k] = last THEN front
            ELSE Append(front, last)

\* the second component of lexer(expression): the distinct names in order of
\* first appearance
Unknowns(tree) == FirstOccurrences(NamesOf(tree))

(***************************************************************************)
(* Part 5: the bindings a caller passes.  A binding object is a function   *)
(* on Keys; Absent marks a key the object does not own.                    *)
(***************************************************************************)
Keys == {"x", "y", "z", "w"}

Absent == <<"absent">>

\* two assignments of numbers to the keys
Valuations ==
    {[k \in Keys |-> CASE k = "x" -> <<"num", 2, 1>> [] k = "y" -> <<"num", 3, 1>>
                       [] k = "z" -> <<"num", 5, 1>> [] k = "w" -> <<"num", 7, 1>>],
     [k \in Keys |-> CASE k = "x" -> <<"num", -2, 1>> [] k = "y" -> <<"num", 0, 1>>
                       [] k = "z" -> <<"num", 1, 1>> [] k = "w" -> <<"num", 4, 1>>]}

\* every binding object: a valuation cut down to a set of keys
Bindings ==
    {[k \in Keys |-> IF k \in S THEN v[k] ELSE Absent] :
        S \in {T \in SUBSET Keys : Cardinality(T) <= MaxKeys}, v \in Valuations}

NoBindings == [k \in Keys |-> Absent]

\* Object.keys(variables)
ObjectKeys(b) == {k \in Keys : b[k] # Absent}

\* variables.hasOwnProperty(v)
HasOwnProperty(b, k) == k \in Keys /\ b[k] # Absent

\* vars[node.name]: undefined for a key the object does not own
Lookup(b, k) == IF HasOwnProperty(b, k) THEN b[k] ELSE Undefined

(***************************************************************************)
(* Part 6: evaluate(expression): traverse attaches fn to every node; a fn  *)
(* is named by the arrow function the branch assigns.                      *)
(***************************************************************************)
RECURSIVE traverse(_)
traverse(node) ==
    IF node.type = "block" THEN
        [type |-> "block", child |-> <<traverse(node.child[1])>>, fn |-> "child[0].fn"]
    ELSE IF node.type = "unary_operator" THEN
        [type |-> "unary_operator", operator |-> node.operator,
         child |-> traverse(node.child),
         fn |-> IF node.operator = "+" THEN "child.fn"
                ELSE IF node.operator = "-" THEN "-child.fn"
                ELSE "unset"]
    ELSE IF node.type = "binary_operator" THEN
        [type |-> "binary_operator", operator |-> node.operator,
         left |-> traverse(node.left), right |-> traverse(node.right),
         fn |-> IF node.operator = "+" THEN "left.fn + right.fn"
                ELSE IF node.operator = "-" THEN "left.fn - right.fn"
                ELSE IF node.operator = "*" THEN "left.fn * right.fn"
                ELSE IF node.operator = "/" THEN "left.fn / right.fn"
                ELSE IF node.operator = "^" THEN "left.fn ** right.fn"
                ELSE "unset"]
    ELSE IF node.type = "literal" THEN
        [type |-> "literal", value |-> node.value, fn |-> "parseFloat(value)"]
    ELSE [type |-> "variable", name |-> node.name, fn |-> "vars[name]"]

\* node.fn(vars), for a node traverse has been through.  A node whose fn was
\* never set (an operator outside the data model) has no fn to call; no tree
\* of ParseTrees has one.
RECURSIVE CallFn(_, _)
CallFn(node, b) ==
    CASE node.fn = "child[0].fn" -> CallFn(node.child[1], b)
      [] node.fn = "child.fn" -> CallFn(node.child, b)
      [] node.fn = "-child.fn" -> Neg(CallFn(node.child, b))
      [] node.fn = "left.fn + right.fn" -> Add(CallFn(node.left, b), CallFn(node.right, b))
      [] node.fn = "left.fn - right.fn" -> Sub(CallFn(node.left, b), CallFn(node.right, b))
      [] node.fn = "left.fn * right.fn" -> Mul(CallFn(node.left, b), CallFn(node.right, b))
      [] node.fn = "left.fn / right.fn" -> Div(CallFn(node.left, b), CallFn(node.right, b))
      [] node.fn = "left.fn ** right.fn" -> Pow(CallFn(node.left, b), CallFn(node.right, b))
      [] node.fn = "parseFloat(value)" -> ParseFloat(node.value)
      [] node.fn = "vars[name]" -> Lookup(b, node.name)
      [] node.fn = "unset" -> <<"TypeError">>

(***************************************************************************)
(* Part 7: fastEvaluate's traverse: the value of a node, computed on the   *)
(* way; a branch that returns nothing yields undefined.                    *)
(***************************************************************************)
RECURSIVE fastTraverse(_, _)
fastTraverse(node, b) ==
    IF node.type = "block" THEN fastTraverse(node.child[1], b)
    ELSE IF node.type = "unary_operator" THEN
        (IF node.operator = "+" THEN fastTraverse(node.child, b)
         ELSE IF node.operator = "-" THEN Neg(fastTraverse(node.child, b))
         ELSE Undefined)
    ELSE IF node.type = "binary_operator" THEN
        (IF node.operator = "+" THEN Add(fastTraverse(node.left, b), fastTraverse(node.right, b))
         ELSE IF node.operator = "-" THEN Sub(fastTraverse(node.left, b), fastTraverse(node.right, b))
         ELSE IF node.operator = "*" THEN Mul(fastTraverse(node.left, b), fastTraverse(node.right, b))
         ELSE IF node.operator = "/" THEN Div(fastTraverse(node.left, b), fastTraverse(node.right, b))
         ELSE Undefined)
    ELSE IF node.type = "literal" THEN ParseInt(node.value)
    ELSE IF node.type = "variable" THEN Lookup(b, node.name)
    ELSE Undefined

(***************************************************************************)
(* Part 8: the outcome of a call, and the two checks on the bindings.      *)
(***************************************************************************)
NotCalled ==
    [status |-> "none", value |-> Undefined, message |-> "", expected |-> Null,
     actual |-> Null, variable |-> "", walked |-> FALSE]

\* return <the value of the tree>
Returned(v) ==
    [status |-> "returned", value |-> v, message |-> "", expected |-> Null,
     actual |-> Null, variable |-> "", walked |-> TRUE]

\* Error(`Incorrect number of values passed: should be ${..} and is ${..}`)
IncorrectNumber(should, is) ==
    [status |-> "thrown", value |-> Undefined,
     message |-> "Incorrect number of values passed", expected |-> should,
     actual |-> is, variable |-> "", walked |-> FALSE]

\* Error(`Missing value for variable ${v}`)
MissingValue(v) ==
    [status |-> "thrown", value |-> Undefined,
     message |-> "Missing value for variable", expected |-> Null,
     actual |-> Null, variable |-> v, walked |-> FALSE]

\* for (let v of unknowns) if (!variables.hasOwnProperty(v)): the first such v
FirstMissing(unk, b) ==
    LET miss == {k \in 1..Len(unk) : ~HasOwnProperty(b, unk[k])}
    IN unk[CHOOSE k \in miss : \A j \in miss : k <= j]

LastMissing(unk, b) ==
    LET miss == {k \in 1..Len(unk) : ~HasOwnProperty(b, unk[k])}
    IN unk[CHOOSE k \in miss : \A j \in miss : j <= k]

AnyMissing(unk, b) == \E k \in 1..Len(unk) : ~HasOwnProperty(b, unk[k])

calcPresenceFirst(tree, unk, b) ==
    IF AnyMissing(unk, b) THEN MissingValue(FirstMissing(unk, b))
    ELSE IF Cardinality(ObjectKeys(b)) # Len(unk)
         THEN IncorrectNumber(Len(unk), Cardinality(ObjectKeys(b)))
    ELSE Returned(CallFn(tree, b))

calcLastMissing(tree, unk, b) ==
    IF Cardinality(ObjectKeys(b)) # Len(unk)
    THEN IncorrectNumber(Len(unk), Cardinality(ObjectKeys(b)))
    ELSE IF AnyMissing(unk, b) THEN MissingValue(LastMissing(unk, b))
    ELSE Returned(CallFn(tree, b))

\* calc: variables => {...} of the object evaluate returns
calc(tree, unk, b) ==
    IF Cardinality(ObjectKeys(b)) # Len(unk)
    THEN IncorrectNumber(Len(unk), Cardinality(ObjectKeys(b)))
    ELSE IF AnyMissing(unk, b) THEN MissingValue(FirstMissing(unk, b))
    ELSE Returned(CallFn(tree, b))

\* fastEvaluate(expression, values), from the parse tree of the expression on
fastEvaluate(tree, b) ==
    LET unk == Unknowns(tree)
    IN IF Cardinality(ObjectKeys(b)) # Len(unk)
       THEN IncorrectNumber(Len(unk), Cardinality(ObjectKeys(b)))
       ELSE IF AnyMissing(unk, b) THEN MissingValue(FirstMissing(unk, b))
       ELSE Returned(fastTraverse(tree, b))

(***************************************************************************)
(* Part 9: the evaluators as a state machine.  The state after             *)
(* evaluate(expression): the parse tree of the expression, the evaluation  *)
(* tree and the unknowns the returned object closes over.  values is the   *)
(* binding object of the latest call, calcOut and fastOut the outcomes of  *)
(* the latest calc and fastEvaluate made with it.  ncalls and failed       *)
(* record, where calls are counted, how many calc calls were made and      *)
(* whether one before the latest threw.                                    *)
(***************************************************************************)
CalcConsuming(b) ==
    /\ calcOut' = calc(evaluate_tree, unknowns, b)
    /\ values' = b
    /\ fastOut' = IF b = values THEN fastOut ELSE NotCalled
    /\ unknowns' = IF unknowns = <<>> THEN unknowns ELSE Tail(unknowns)
    /\ UNCHANGED <<parse_tree, evaluate_tree>>

\* calc(b) on the object evaluate returned: it assigns nothing
Calc(b) ==
    /\ calcOut' = calc(evaluate_tree, unknowns, b)
    /\ values' = b
    /\ fastOut' = IF b = values THEN fastOut ELSE NotCalled
    /\ UNCHANGED <<parse_tree, unknowns, evaluate_tree>>

\* fastEvaluate(expression, b)
FastEvaluate(b) ==
    /\ fastOut' = fastEvaluate(parse_tree, b)
    /\ values' = b
    /\ calcOut' = IF b = values THEN calcOut ELSE NotCalled
    /\ UNCHANGED <<parse_tree, unknowns, evaluate_tree>>

\* one more calc(b) of a caller that keeps the evaluator, counted
CalcAgain(b) ==
    /\ ncalls < MaxCalls
    /\ Calc(b)
    /\ ncalls' = ncalls + 1
    /\ failed' = (failed \/ calcOut.status = "thrown")

(***************************************************************************)
(* The specifications: the scan of parentheses(tokens); one expression     *)
(* under both evaluators; one compiled evaluator called again and again.   *)
(* Each holds the variables of the other part still.                       *)
(***************************************************************************)
NoTree == [type |-> "none"]

ParenInit ==
    /\ tokens \in TokenSeqs
    /\ i = 0
    /\ level = 0
    /\ parens = <<>>
    /\ pc = "scan"
    /\ error = NoError
    /\ parse_tree = NoTree
    /\ unknowns = <<>>
    /\ evaluate_tree = NoTree
    /\ values = NoBindings
    /\ calcOut = NotCalled
    /\ fastOut = NotCalled
    /\ ncalls = 0
    /\ failed = FALSE

EvalInit ==
    /\ parse_tree \in ParseTrees
    /\ unknowns = Unknowns(parse_tree)
    /\ evaluate_tree = traverse(parse_tree)
    /\ values = NoBindings
    /\ calcOut = NotCalled
    /\ fastOut = NotCalled
    /\ ncalls = 0
    /\ failed = FALSE
    /\ tokens = <<>>
    /\ i = 0
    /\ level = 0
    /\ parens = <<>>
    /\ pc = "idle"
    /\ error = NoError

ParenNext ==
    \/ ScanOpen /\ UNCHANGED <<evalVars, historyVars>>
    \/ ScanClose /\ UNCHANGED <<evalVars, historyVars>>
    \/ ScanCloseThrow /\ UNCHANGED <<evalVars, historyVars>>
    \/ ScanOther /\ UNCHANGED <<evalVars, historyVars>>
    \/ Return /\ UNCHANGED <<evalVars, historyVars>>

EvalNext ==
    \/ \E b \in Bindings : Calc(b) /\ UNCHANGED <<parenVars, historyVars>>
    \/ \E b \in Bindings : FastEvaluate(b) /\ UNCHANGED <<parenVars, historyVars>>

ReuseNext == \E b \in Bindings : CalcAgain(b) /\ UNCHANGED parenVars

ParenSpec == ParenInit /\ [][ParenNext]_vars

EvalSpec == EvalInit /\ [][EvalNext]_vars

ReuseSpec == EvalInit /\ [][ReuseNext]_vars

(***************************************************************************)
(* Properties of parentheses(tokens), under ParenSpec.                     *)
(***************************************************************************)
\* the number of tokens of type t among the first k tokens
Count(t, k) == Cardinality({j \in 1..k : tokens[j].type = t})

Opens(k) == Count("paren_open", k)
Closes(k) == Count("paren_close", k)

\* the indices (0-based) at which a prefix holds more closing than opening tokens
ExcessIndices == {j \in 0..(Len(tokens) - 1) : Closes(j + 1) > Opens(j + 1)}

HasExcess == ExcessIndices # {}

FirstExcess == CHOOSE j \in ExcessIndices : \A k \in ExcessIndices : j <= k

Balanced == ~HasExcess /\ Opens(Len(tokens)) = Closes(Len(tokens))

\* the opening token at index j (0-based) is never matched by a closing token
UnmatchedOpen(j) ==
    /\ tokens[j + 1].type = "paren_open"
    /\ \A c \in (j + 2)..Len(tokens) :
          Closes(c) - Closes(j + 1) <= Opens(c) - Opens(j + 1)

Blocks == 1..Len(parens)

Unclosed == {p \in Blocks : parens[p].end = Null}

DisjointBlocks(a, b) == a.end <= b.start \/ b.end <= a.start

StrictlyContains(a, b) == a.start < b.start /\ b.end < a.end

\* C2: when parentheses() returns on a balanced token sequence, there is
\* exactly one block per paren_open token, started at that token's index and
\* with a non-null end, and any two blocks [start, end) are disjoint or one
\* strictly contains the other.
C2_ProperNesting ==
    (pc = "returned" /\ Balanced) =>
        /\ Len(parens) = Opens(Len(tokens))
        /\ \A j \in 0..(Len(tokens) - 1) :
              tokens[j + 1].type = "paren_open" =>
                  Cardinality({p \in Blocks : parens[p].start = j}) = 1
        /\ \A p \in Blocks :
              /\ parens[p].end # Null
              /\ parens[p].start \in 0..(Len(tokens) - 1)
              /\ tokens[parens[p].start + 1].type = "paren_open"
        /\ \A p, q \in Blocks :
              p # q => \/ DisjointBlocks(parens[p], parens[q])
                       \/ StrictlyContains(parens[p], parens[q])
                       \/ StrictlyContains(parens[q], parens[p])

\* a balanced sequence returned with a nested pair and a disjoint pair of blocks
C2_Witness ==
    /\ pc = "returned"
    /\ Balanced
    /\ \E p, q \in Blocks : StrictlyContains(parens[p], parens[q])
    /\ \E p, q \in Blocks : p # q /\ DisjointBlocks(parens[p], parens[q])

\* C3: parentheses() throws exactly on the token sequences with an excess
\* closing token, at the first index where the running level becomes
\* negative, without returning a block list; on every other sequence it does
\* not throw.
C3_ExcessCloseThrows ==
    /\ pc = "thrown" =>
          /\ HasExcess
          /\ error.message = "Bad parentheses syntax at index"
          /\ error.index = FirstExcess
    /\ pc = "returned" => ~HasExcess
    /\ (pc = "scan" /\ HasExcess) => i <= FirstExcess
    /\ pc # "thrown" => error = NoError

\* the scan threw at a closing token that follows a closed block
C3_Witness ==
    /\ pc = "thrown"
    /\ error.index >= 2
    /\ Len(parens) >= 1
    /\ Unclosed = {}

\* C6: parentheses() never returns a block list holding a block whose end is
\* still unset when some paren_open of the sequence has no matching
\* paren_close.
C6_UnclosedNotReturned ==
    (\E j \in 0..(Len(tokens) - 1) : UnmatchedOpen(j)) =>
        ~(pc = "returned" /\ \E p \in Blocks : parens[p].end = Null)

\* C8: a paren_close token at index i that leaves the level >= 0 closes
\* exactly the most recently opened block whose end is unset, setting its end
\* to i + 1 and changing nothing else of any block; and no step overwrites an
\* end that is set.
C8_LifoClose ==
    [][/\ (pc = "scan" /\ i < Len(tokens) /\ tokens[i + 1].type = "paren_close"
             /\ level - 1 >= 0) =>
              /\ Unclosed # {}
              /\ LET top == CHOOSE p \in Unclosed : \A q \in Unclosed : q <= p
                 IN parens' = [parens EXCEPT ![top].end = i + 1]
       /\ \A p \in Blocks :
              parens[p].end # Null =>
                  (p <= Len(parens') /\ parens'[p].end = parens[p].end)]_vars

\* a closing token has closed a block opened after a block that is still
\* open, while an earlier closed block keeps its own end
C8_Witness ==
    \E p, q, r \in Blocks :
        /\ p < q /\ q < r
        /\ parens[p].end = Null
        /\ parens[q].end # Null
        /\ parens[r].end # Null
        /\ parens[q].end < parens[r].end
        /\ i = parens[r].end

\* C9: while the scan has not failed, level is the number of blocks whose end
\* is unset; every block's level is >= 1 and is 1 plus the number of blocks
\* open when its opening token was scanned; blocks are in increasing order of
\* start.
C9_LevelIsDepth ==
    pc # "thrown" =>
        /\ level = Cardinality(Unclosed)
        /\ \A p \in Blocks :
              /\ parens[p].level >= 1
              /\ parens[p].level =
                    1 + Cardinality({q \in 1..(p - 1) :
                                        \/ parens[q].end = Null
                                        \/ parens[q].end > parens[p].start})
        /\ \A p, q \in Blocks : p < q => parens[p].start < parens[q].start

\* returned blocks of depth 2 and, opened later, of depth 1
C9_Witness ==
    /\ pc = "returned"
    /\ \E p, q \in Blocks : p < q /\ parens[p].level = 2 /\ parens[q].level = 1

(***************************************************************************)
(* Properties of the evaluators, under EvalSpec and ReuseSpec.             *)
(***************************************************************************)
\* the nodes of a tree
RECURSIVE NodesOf(_)
NodesOf(node) ==
    IF node.type = "block" THEN {node} \cup NodesOf(node.child[1])
    ELSE IF node.type = "unary_operator" THEN {node} \cup NodesOf(node.child)
    ELSE IF node.type = "binary_operator"
         THEN {node} \cup NodesOf(node.left) \cup NodesOf(node.right)
    ELSE {node}

HasPoint(text) == \E k \in 1..Len(text) : text[k] = "."

PointAt(text) == CHOOSE k \in 1..Len(text) : text[k] = "."

\* every literal of the tree is written without a fractional part
IntegerLiterals(tree) ==
    \A n \in NodesOf(tree) : n.type = "literal" => ~HasPoint(n.value)

UsesPower(tree) ==
    \E n \in NodesOf(tree) : n.type = "binary_operator" /\ n.operator = "^"

\* the tree with every literal cut at its point
RECURSIVE Truncated(_)
Truncated(node) ==
    IF node.type = "block" THEN [node EXCEPT !.child = <<Truncated(node.child[1])>>]
    ELSE IF node.type = "unary_operator" THEN [node EXCEPT !.child = Truncated(node.child)]
    ELSE IF node.type = "binary_operator"
         THEN [node EXCEPT !.left = Truncated(node.left), !.right = Truncated(node.right)]
    ELSE IF node.type = "literal" /\ HasPoint(node.value)
         THEN [node EXCEPT !.value = SubSeq(node.value, 1, PointAt(node.value) - 1)]
    ELSE node

BothReturned == calcOut.status = "returned" /\ fastOut.status = "returned"

Called == {o \in {calcOut, fastOut} : o.status # "none"}

NumberOfKeys == Cardinality({k \in Keys : values[k] # Absent})

AbsentUnknowns == {k \in 1..Len(unknowns) : values[unknowns[k]] = Absent}

\* C1: on a tree whose literals are integers, with bindings that pass both
\* checks, calc(bindings) and fastEvaluate(expression, bindings) return the
\* same result.
C1_EvaluatorsAgree ==
    (BothReturned /\ IntegerLiterals(parse_tree)) => calcOut.value = fastOut.value

\* C4: calc and fastEvaluate throw the incorrect-number error, with the
\* number of unknowns as expected and the number of keys as actual, exactly
\* when the two numbers differ, whether or not an unknown is absent, and
\* without evaluating the tree.
C4_ArityFirst ==
    \A o \in Called :
        /\ (NumberOfKeys # Len(unknowns)) <=>
              (o.status = "thrown" /\ o.message = "Incorrect number of values passed")
        /\ NumberOfKeys # Len(unknowns) =>
              /\ o.expected = Len(unknowns)
              /\ o.actual = NumberOfKeys
              /\ ~o.walked

\* both calls failed with one key against two unknowns, one of them absent
C4_Witness ==
    /\ Len(unknowns) = 2
    /\ NumberOfKeys = 1
    /\ AbsentUnknowns # {}
    /\ calcOut.status = "thrown"
    /\ fastOut.status = "thrown"
    /\ calcOut.expected = 2
    /\ calcOut.actual = 1

\* C5: with as many keys as unknowns, calc and fastEvaluate throw the
\* missing-variable error naming the first absent unknown, without
\* evaluating the tree, when an unknown is absent, and return when none is.
C5_MissingVariable ==
    \A o \in Called :
        NumberOfKeys = Len(unknowns) =>
            IF AbsentUnknowns # {}
            THEN /\ o.status = "thrown"
                 /\ o.message = "Missing value for variable"
                 /\ \E k \in AbsentUnknowns :
                       /\ \A j \in AbsentUnknowns : k <= j
                       /\ o.variable = unknowns[k]
                 /\ ~o.walked
            ELSE o.status = "returned"

\* both calls failed with two keys against two unknowns, both absent
C5_Witness ==
    /\ Len(unknowns) = 2
    /\ NumberOfKeys = 2
    /\ AbsentUnknowns = {1, 2}
    /\ calcOut.status = "thrown"
    /\ fastOut.status = "thrown"
    /\ calcOut.variable = unknowns[1]

\* C7: no calc call, failed or not, changes the evaluation tree, the
\* functions attached to its nodes or the unknowns, and every calc that
\* returns gives what a fresh evaluate of the same expression gives for the
\* same bindings.
C7_CalcLeavesEvaluator ==
    [][/\ evaluate_tree' = evaluate_tree
       /\ unknowns' = unknowns
       /\ calcOut'.status = "returned" =>
             calcOut' = calc(traverse(parse_tree'), Unknowns(parse_tree'), values')]_vars

\* a calc has returned after an earlier calc of the same evaluator threw
C7_Witness ==
    /\ ncalls = MaxCalls
    /\ failed
    /\ calcOut.status = "returned"
    /\ unknowns # <<>>

\* C10: for a literal with a fractional part fastEvaluate computes with its
\* integer part and calc with its decimal value; for a literal without one
\* both compute with the same value.
C10_LiteralParsing ==
    /\ (BothReturned /\ parse_tree.type = "literal") =>
          LET text == parse_tree.value
          IN IF HasPoint(text)
             THEN LET whole == DigitsValue(SubSeq(text, 1, PointAt(text) - 1))
                      part == SubSeq(text, PointAt(text) + 1, Len(text))
                  IN /\ fastOut.value = <<"num", whole, 1>>
                     /\ calcOut.value =
                           Norm(whole * Pow10(Len(part)) + DigitsValue(part),
                                Pow10(Len(part)))
             ELSE /\ calcOut.value = fastOut.value
                  /\ calcOut.value = <<"num", DigitsValue(text), 1>>
    /\ (fastOut.status = "returned" /\ ~UsesPower(parse_tree)) =>
          fastOut.value = CallFn(traverse(Truncated(parse_tree)), values)

\* both evaluators returned for the literal 12.5, with different values
C10_Witness ==
    /\ BothReturned
    /\ parse_tree.type = "literal"
    /\ HasPoint(parse_tree.value)
    /\ calcOut.value # fastOut.value

====
